---- MODULE Spec2Model ----
(***************************************************************************)
(* Model of the tunnel session core of tuna (src/tuna.go) and of the       *)
(* reverse-mode entry program (src/unnamed/part_000).                      *)
(*                                                                         *)
(* Spec     the outbound session: CreateServerConn / UpdateServerConn and  *)
(*          the GetServer* accessors, against a subscriber directory.     *)
(* LiveSpec Spec with the fairness of the random offset and of the calls. *)
(* RevSpec  the reverse entry: shared UDP socket, reader loop, accept     *)
(*          loop wiring and per-peer writer loops.                         *)
(* RevLiveSpec  RevSpec with the fairness of the goroutines' steps.        *)
(* PumpSpec the outbound session with the UDP pumps of its sockets.        *)
(* RelaySpec  Pipe / copyBuffer relays sharing a byte counter.             *)
(* PubSpec  the publishing loop of UpdateMetadata.                         *)
(***************************************************************************)
EXTENDS Integers, Sequences, FiniteSets, TLC

VARIABLES
    c,           \* the Common struct of the session (src/tuna.go:60-81)
    directory,   \* subscriber ids currently subscribed to the topic
    udpSockets,  \* sockets dialed by UpdateServerConn: id -> open?, pumps started
    pc,          \* position of the caller inside CreateServerConn
    force,       \* its force argument
    offset,      \* local of CreateServerConn (line 226)
    sampled,     \* subscriber of the page being ranged over (line 232), 0 = none
    ret,         \* what the last call returned
    step,        \* which branch of CreateServerConn the last step took
    skips,       \* candidates skipped by "continue RandomSubscriber" in this call
    dialFailed,  \* a dial of UpdateServerConn failed during this call
    pre,         \* commitment held when a forced call started on a connected session
    rv,          \* state of the reverse entry program (RevSpec)
    relay,       \* the relays run by Pipe and the byte counter they share (RelaySpec)
    publisher    \* the publishing loop of UpdateMetadata (PubSpec)

vars == <<c, directory, udpSockets, pc, force, offset, sampled, ret, step, skips,
          dialFailed, pre, rv, relay, publisher>>

sessionVars == <<c, directory, udpSockets, pc, force, offset, sampled, ret, step,
                 skips, dialFailed, pre>>

(***************************************************************************)
(* Bounds of the model.                                                    *)
(***************************************************************************)
MaxSubs == 2      \* subscribers in the directory when the session starts
MaxPrice == 1     \* price ceilings range over 0..MaxPrice
MaxSkips == 3     \* the skip counter saturates here
MaxSockets == 2   \* UDP sockets a session may dial before calls stop
MaxConns == 2     \* connections the reverse entry accepts
MaxPayload == 3   \* bytes a relayed source yields in all
BufLen == 2       \* length of the copy buffer (32768 in the source), scaled down
MaxDuration == 6  \* subscription durations range over 0..MaxDuration
MaxPublishes == 3 \* the count of publish attempts saturates here

Min(a, b) == IF a < b THEN a ELSE b

(***************************************************************************)
(* Values.                                                                 *)
(***************************************************************************)
NilConn == [addr |-> <<>>, open |-> FALSE, sock |-> 0]

NilMetadata ==
    [ptr |-> "nil", IP |-> "", TCPPort |-> 0, UDPPort |-> 0, ServiceTCP |-> <<>>,
     ServiceUDP |-> <<>>, Price |-> <<>>, BeneficiaryAddr |-> ""]

\* &Metadata{} : every field at its zero value
ZeroMetadata == [NilMetadata EXCEPT !.ptr = "set"]

\* A price string is the sequence of its comma-separated tokens: a decimal
\* amount or some other word.
Amount(n) == [digits |-> TRUE, val |-> n]
Word == [digits |-> FALSE, val |-> 0]
PriceString(e, x) == <<Amount(e), Amount(x)>>

\* A descriptor string as published: well-formed JSON of the fields, or text
\* json.Unmarshal rejects.
DescriptorWith(ip, tcpPort, udpPort, price, beneficiary) ==
    [form |-> "json", ip |-> ip, tcpPort |-> tcpPort, udpPort |-> udpPort,
     price |-> price, beneficiaryAddr |-> beneficiary]

Descriptor(ip, price, beneficiary) == DescriptorWith(ip, 30020, 30021, price, beneficiary)

Garbage == [form |-> "syntax", ip |-> "", tcpPort |-> 0, udpPort |-> 0,
            price |-> <<>>, beneficiaryAddr |-> ""]

\* The subscribers that may be subscribed to the topic: address -> descriptor.
\* Addresses k* carry a public key a wallet address derives from; x* do not.
Subscribers ==
    <<[addr |-> "k1", meta |-> Descriptor("up", PriceString(0, 0), "B1")],
      [addr |-> "k2", meta |-> Descriptor("up", PriceString(1, 1), "")],
      [addr |-> "k3", meta |-> Garbage],
      [addr |-> "x4", meta |-> Descriptor("up", PriceString(0, 0), "")],
      [addr |-> "k5", meta |-> Descriptor("up", <<Word>>, "B5")],
      [addr |-> "k6", meta |-> Descriptor("tcpdown", PriceString(0, 0), "B6")],
      [addr |-> "k7", meta |-> Descriptor("udpdown", PriceString(0, 0), "")]>>

\* The wallet address each well-formed client address derives to.
KeyAddress == [k1 |-> "W1", k2 |-> "W2", k3 |-> "W3", k5 |-> "W5", k6 |-> "W6",
               k7 |-> "W7"]

SubscriberIds == 1..Len(Subscribers)

\* Hosts that accept a TCP connection / to which a UDP socket can be connected.
TCPReachable == {"up", "udpdown"}
UDPReachable == {"up", "tcpdown"}

\* Session configurations: the service's declared ports, the reverse flag and
\* the reverse metadata (nil or set).
Configs ==
    {[TCP |-> <<80>>, UDP |-> <<53>>, Reverse |-> FALSE, ReverseMetadata |-> NilMetadata],
     [TCP |-> <<80>>, UDP |-> <<>>,   Reverse |-> FALSE, ReverseMetadata |-> NilMetadata],
     [TCP |-> <<>>,   UDP |-> <<53>>, Reverse |-> FALSE, ReverseMetadata |-> NilMetadata],
     [TCP |-> <<>>,   UDP |-> <<>>,   Reverse |-> FALSE, ReverseMetadata |-> NilMetadata],
     [TCP |-> <<>>,   UDP |-> <<>>,   Reverse |-> FALSE,
      ReverseMetadata |-> [ZeroMetadata EXCEPT !.ServiceTCP = <<22>>, !.ServiceUDP = <<53>>]],
     [TCP |-> <<>>,   UDP |-> <<>>,   Reverse |-> TRUE,  ReverseMetadata |-> NilMetadata]}

NoRet == "none"
Ok == "nil"
ErrNoProviders == "there is no service providers"
ErrDirectory == "directory rpc error"

(***************************************************************************)
(* Pure functions of the source.                                           *)
(***************************************************************************)
\* ReadMetadata: json.Unmarshal into a fresh Metadata; the pointer is returned
\* with the error, so a failed decode yields the zero struct, not nil.
ReadMetadata(metadataString) ==
    IF metadataString.form = "json"
    THEN [metadata |-> [ptr |-> "set", IP |-> metadataString.ip,
                        TCPPort |-> metadataString.tcpPort,
                        UDPPort |-> metadataString.udpPort,
                        ServiceTCP |-> <<>>, ServiceUDP |-> <<>>,
                        Price |-> metadataString.price,
                        BeneficiaryAddr |-> metadataString.beneficiaryAddr],
          err |-> FALSE]
    ELSE [metadata |-> ZeroMetadata, err |-> TRUE]

\* ParsePrice: two fixed-point amounts separated by a delimiter.
ParsePrice(price) ==
    IF Len(price) = 2 /\ price[1].digits /\ price[2].digits
    THEN [entryToExitPrice |-> price[1].val, exitToEntryPrice |-> price[2].val,
          err |-> FALSE]
    ELSE [entryToExitPrice |-> 0, exitToEntryPrice |-> 0, err |-> TRUE]

\* address.ParseClientAddress .. programHash.ToAddress (lines 240-262)
DeriveAddress(subscriber) ==
    IF subscriber \in DOMAIN KeyAddress
    THEN [address |-> KeyAddress[subscriber], err |-> FALSE]
    ELSE [address |-> "", err |-> TRUE]

\* net.DialTimeout("tcp", ip:port): a live handle, or nil with an error
DialTCP(ip, port) ==
    IF ip \in TCPReachable
    THEN [conn |-> [addr |-> <<ip, port>>, open |-> TRUE, sock |-> 0], err |-> FALSE]
    ELSE [conn |-> NilConn, err |-> TRUE]

\* net.DialUDP("udp", nil, ip:port); sock names the socket among udpSockets
DialUDP(ip, port, sock) ==
    IF ip \in UDPReachable
    THEN [conn |-> [addr |-> <<ip, port>>, open |-> TRUE, sock |-> sock], err |-> FALSE]
    ELSE [conn |-> NilConn, err |-> TRUE]

\* Close(conn) on a UDP handle: nil is left alone, a socket is closed
CloseSocket(socks, conn) ==
    IF conn = NilConn THEN socks
    ELSE [socks EXCEPT ![conn.sock] = [@ EXCEPT !.open = FALSE]]

\* StartUDPReaderWriter(conn): one reader and one writer goroutine on the
\* socket; wrote is what the writer's last conn.Write met (nothing written yet,
\* an open socket, a closed socket)
StartUDPReaderWriter(socks) ==
    Append(socks, [open |-> TRUE, reader |-> "reading", writer |-> "waiting",
                   wrote |-> "nothing"])

(***************************************************************************)
(* Common.SetMetadata, Common.UpdateServerConn                             *)
(***************************************************************************)
\* (variant: a connected session keeps the descriptor it is committed to)
SetMetadata_KeepsCommitted(c0, metadataString) ==
    LET r == ReadMetadata(metadataString)
    IN  IF c0.connected THEN [c |-> c0, ok |-> ~r.err]
        ELSE [c |-> [c0 EXCEPT !.Metadata = r.metadata], ok |-> ~r.err]

\* SetMetadata: c.Metadata is assigned whatever ReadMetadata returned, also
\* when it returned an error.
SetMetadata(c0, metadataString) ==
    LET r == ReadMetadata(metadataString)
    IN  [c |-> [c0 EXCEPT !.Metadata = r.metadata], ok |-> ~r.err]

NeedsTCP(c0) == Len(c0.Service.TCP) > 0 \/ c0.ReverseMetadata # NilMetadata
NeedsUDP(c0) == Len(c0.Service.UDP) > 0 \/ c0.ReverseMetadata # NilMetadata

\* (variant: a TCP handle that is open is kept, not closed and dialed again)
TCPStage_KeepsOpenHandle(c0) ==
    IF NeedsTCP(c0) /\ ~c0.tcpConn.open
    THEN LET d == DialTCP(c0.Metadata.IP, c0.Metadata.TCPPort)
         IN  [c |-> [c0 EXCEPT !.tcpConn = d.conn], ok |-> ~d.err]
    ELSE [c |-> c0, ok |-> TRUE]

\* Lines 176-190: close the old TCP handle, dial the new one; the handle is
\* assigned before the error is looked at.
TCPStage(c0) ==
    IF NeedsTCP(c0)
    THEN LET d == DialTCP(c0.Metadata.IP, c0.Metadata.TCPPort)
         IN  [c |-> [c0 EXCEPT !.tcpConn = d.conn], ok |-> ~d.err]
    ELSE [c |-> c0, ok |-> TRUE]

\* (variant: the UDP dial error is logged but the function goes on)
UDPStage_NoReturnOnError(c0, socks) ==
    IF NeedsUDP(c0)
    THEN LET closed == CloseSocket(socks, c0.udpConn)
             d == DialUDP(c0.Metadata.IP, c0.Metadata.UDPPort, Len(socks) + 1)
             c1 == [c0 EXCEPT !.udpConn = d.conn]
         IN  [c |-> c1, socks |-> StartUDPReaderWriter(closed), ok |-> TRUE]
    ELSE [c |-> c0, socks |-> socks, ok |-> TRUE]

\* Lines 191-207: close the old UDP socket, dial the new one, start its pumps.
UDPStage(c0, socks) ==
    IF NeedsUDP(c0)
    THEN LET closed == CloseSocket(socks, c0.udpConn)
             d == DialUDP(c0.Metadata.IP, c0.Metadata.UDPPort, Len(socks) + 1)
             c1 == [c0 EXCEPT !.udpConn = d.conn]
         IN  IF d.err
             THEN [c |-> c1, socks |-> closed, ok |-> FALSE]
             ELSE [c |-> c1, socks |-> StartUDPReaderWriter(closed), ok |-> TRUE]
    ELSE [c |-> c0, socks |-> socks, ok |-> TRUE]

UpdateServerConn(c0, socks) ==
    LET t == TCPStage(c0)
    IN  IF ~t.ok
        THEN [c |-> t.c, socks |-> socks, ok |-> FALSE]
        ELSE LET u == UDPStage(t.c, socks)
             IN  IF ~u.ok
                 THEN [c |-> u.c, socks |-> u.socks, ok |-> FALSE]
                 ELSE [c |-> [u.c EXCEPT !.connected = TRUE], socks |-> u.socks,
                       ok |-> TRUE]

(***************************************************************************)
(* Common.CreateServerConn                                                 *)
(***************************************************************************)
\* (variant: the guard forgets the connected flag)
NeedsNegotiation_IgnoresConnected(c0, f) == ~c0.Reverse

\* Line 214: the guard of the negotiation
NeedsNegotiation(c0, f) == ~c0.Reverse /\ (c0.connected = FALSE \/ f)

\* (variant: the zero test written as a sign test)
NoProviders_Negative(count) == count < 0

\* Line 223
NoProviders(count) == count = 0

\* (variant: the offset is not drawn, the first subscriber is always asked for)
RandIntn_AlwaysFirst(n) == IF n > 0 THEN {0} ELSE {}

\* Line 226: rand.Intn(n) draws from [0, n) and panics when n <= 0
RandIntn(n) == 0..(n - 1)

\* Wallet.GetSubscribers(topic, offset, 1, true, false): the page of at most
\* one subscriber at that offset of the directory (in the order of the ids)
GetSubscribers(dir, off) ==
    {s \in dir : Cardinality({t \in dir : t < s}) = off}

\* (variant: a price equal to the ceiling is refused as well)
PriceTooHigh_OrEqual(price, maxPrice) == price >= maxPrice

\* Lines 273 and 277: the comparison of a parsed price with its ceiling
PriceTooHigh(price, maxPrice) == price > maxPrice

\* Lines 232-295: the body of the range loop for one (subscriber, metadataString)
TryCandidate(c0, socks, s) ==
    LET subscriber == Subscribers[s].addr
        m == SetMetadata(c0, Subscribers[s].meta)
        d == DeriveAddress(subscriber)
        c1 == IF m.c.Metadata.BeneficiaryAddr # ""
              THEN [m.c EXCEPT !.PaymentReceiver = m.c.Metadata.BeneficiaryAddr]
              ELSE IF d.err THEN m.c
              ELSE [m.c EXCEPT !.PaymentReceiver = d.address]
        p == ParsePrice(m.c.Metadata.Price)
        c2 == [c1 EXCEPT !.EntryToExitPrice = p.entryToExitPrice,
                         !.ExitToEntryPrice = p.exitToEntryPrice]
        c3 == IF c2.ReverseMetadata # NilMetadata
              THEN [c2 EXCEPT !.Metadata.ServiceTCP = c2.ReverseMetadata.ServiceTCP,
                              !.Metadata.ServiceUDP = c2.ReverseMetadata.ServiceUDP]
              ELSE c2
        u == UpdateServerConn(c3, socks)
    IN  IF ~m.ok THEN [c |-> m.c, socks |-> socks, outcome |-> "decodeFail"]
        ELSE IF m.c.Metadata.BeneficiaryAddr = "" /\ d.err
        THEN [c |-> c1, socks |-> socks, outcome |-> "deriveFail"]
        ELSE IF p.err THEN [c |-> c1, socks |-> socks, outcome |-> "priceParseFail"]
        ELSE IF PriceTooHigh(p.entryToExitPrice, c1.EntryToExitMaxPrice)
        THEN [c |-> c1, socks |-> socks, outcome |-> "entryToExitTooHigh"]
        ELSE IF PriceTooHigh(p.exitToEntryPrice, c1.ExitToEntryMaxPrice)
        THEN [c |-> c1, socks |-> socks, outcome |-> "exitToEntryTooHigh"]
        ELSE IF ~u.ok THEN [c |-> u.c, socks |-> u.socks, outcome |-> "dialFail"]
        ELSE [c |-> u.c, socks |-> u.socks, outcome |-> "committed"]

\* (variant: a failed UpdateServerConn returns an error to the caller)
Disposition_DialFailReturns(outcome) ==
    CASE outcome \in {"countErr", "noProviders", "listErr", "dialFail"} -> "return"
      [] outcome \in {"emptyPage", "decodeFail", "deriveFail", "priceParseFail",
                      "entryToExitTooHigh", "exitToEntryTooHigh"} -> "continue"
      [] outcome = "committed" -> "break"

\* (variant: a failed directory query restarts the loop)
Disposition_QueryErrContinues(outcome) ==
    CASE outcome \in {"noProviders"} -> "return"
      [] outcome \in {"countErr", "listErr", "emptyPage", "decodeFail", "deriveFail",
                      "priceParseFail", "entryToExitTooHigh", "exitToEntryTooHigh",
                      "dialFail"} -> "continue"
      [] outcome = "committed" -> "break"

\* Where each branch of the loop transfers control: "continue RandomSubscriber",
\* "break RandomSubscriber" (then return nil) or "return err".
Disposition(outcome) ==
    CASE outcome = "countErr" -> "return"
      [] outcome = "noProviders" -> "return"
      [] outcome = "listErr" -> "return"
      [] outcome = "emptyPage" -> "continue"
      [] outcome = "decodeFail" -> "continue"
      [] outcome = "deriveFail" -> "continue"
      [] outcome = "priceParseFail" -> "continue"
      [] outcome = "entryToExitTooHigh" -> "continue"
      [] outcome = "exitToEntryTooHigh" -> "continue"
      [] outcome = "dialFail" -> "continue"
      [] outcome = "committed" -> "break"

\* The error value of a returning branch
ErrorOf(outcome) ==
    IF outcome = "noProviders" THEN ErrNoProviders ELSE ErrDirectory

(***************************************************************************)
(* The accessors: what each hands back for a result of CreateServerConn    *)
(***************************************************************************)
GetServerTCPConn(c0, err) ==
    IF err # Ok THEN [val |-> NilConn, err |-> err] ELSE [val |-> c0.tcpConn, err |-> Ok]

GetServerUDPConn(c0, err) ==
    IF err # Ok THEN [val |-> NilConn, err |-> err] ELSE [val |-> c0.udpConn, err |-> Ok]

GetServerUDPReadChan(c0, err) ==
    IF err # Ok THEN [val |-> "nil", err |-> err] ELSE [val |-> c0.udpReadChan, err |-> Ok]

GetServerUDPWriteChan(c0, err) ==
    IF err # Ok THEN [val |-> "nil", err |-> err] ELSE [val |-> c0.udpWriteChan, err |-> Ok]

(***************************************************************************)
(* The reverse entry (src/unnamed/part_000, lines 59-164): values          *)
(***************************************************************************)
\* Hosts a connection may come from, as tcpConn.RemoteAddr() prints them
RemoteHosts == {"10.0.0.1", "fe80::1%eth0"}

\* UDP ports a peer may declare or send from
PeerPorts == {5000, 5001}

\* What the first read of the stream may yield
PeerDescriptors ==
    {DescriptorWith("", 0, p, <<>>, "") : p \in PeerPorts \cup {0}} \cup {Garbage}

\* net.ParseIP: nil (printed as the empty host) for a host with a zone
ParseIP(host) == IF host = "fe80::1%eth0" THEN "" ELSE host

\* udpAddr.String() of line 153, for net.UDPAddr{IP: net.ParseIP(ip), Port: port}
WiredAddrString(host, port) == <<ParseIP(host), port>>

\* (variant: the reader looks the sender up by host alone)
SenderAddrString_HostOnly(host, port) == <<host, 5000>>

\* addr.String() of line 94, for the address ReadFromUDP reports
SenderAddrString(host, port) == <<host, port>>

NoChan == 0

RevInitial ==
    [udpOpen |-> TRUE,
     udpReadChans |-> {},        \* the map of line 75, as its <<key, channel>> pairs
     inserting |-> <<>>,         \* the map write of line 153 in progress, if any
     conns |-> <<>>,             \* accepted connections, in order
     acceptLoop |-> "accept",    \* the accept loop: at Accept (102) or in stream.Read (119)
     stalled |-> NoChan,         \* read channel whose consumer has stopped receiving
     reader |-> [state |-> "reading", chan |-> NoChan, data |-> <<>>],
     writers |-> <<>>,           \* per connection: "none", "waiting", "done"
     delivered |-> {},           \* <<channel, payload>> received from read channels
     dropped |-> <<>>,           \* sender of the last datagram that went to no channel
     waitingAtClose |-> {},      \* writer loops waiting when the socket was closed
     sent |-> {},                \* <<connection, destination>> written to the socket
     crashed |-> FALSE]          \* the runtime ended the process

(***************************************************************************)
(* Pipe and copyBuffer (src/tuna.go, lines 388-419): values                *)
(***************************************************************************)
\* Two relays run at once and add to the same counter
Relays == {1, 2}

\* A relay about to start: size bytes to come from src, none read yet
NewPipe(size) ==
    [size |-> size,          \* bytes src yields before end-of-input
     left |-> size,          \* bytes src has not yielded yet
     pc |-> "read",          \* "read", "write", "copied" (copyBuffer returned), "returned"
     nr |-> 0,               \* locals of copyBuffer: result of the last src.Read
     readErr |-> "nil",
     result |-> "none",      \* what copyBuffer returned
     added |-> 0,            \* bytes this relay added to the counter
     srcClosed |-> 0,        \* calls of src.Close
     destClosed |-> 0]       \* calls of dest.Close

RelayInitial == [written |-> 0, pipes |-> [r \in Relays |-> NewPipe(0)]]

(***************************************************************************)
(* UpdateMetadata (src/tuna.go, lines 335-386): values                     *)
(***************************************************************************)
\* CreateRawMetadata: the descriptor string of the given fields
CreateRawMetadata(ip, tcpPort, udpPort, price, beneficiaryAddr) ==
    DescriptorWith(ip, tcpPort, udpPort, price, beneficiaryAddr)

\* subscriptionPrefix + serviceName
Topic(subscriptionPrefix, serviceName) == <<subscriptionPrefix, serviceName>>

\* The goroutine of UpdateMetadata about to publish for the first time, as
\* main starts it (part_000, lines 166-180)
NewPublisher(udpPort, subscriptionDuration) ==
    [topic |-> Topic("tuna+1.", "reverse"),
     metadataRaw |-> CreateRawMetadata("203.0.113.5", 30020, udpPort,
                                       PriceString(0, 0), ""),
     subscriptionDuration |-> subscriptionDuration,
     pc |-> "publish",              \* "publish" (line 364) or "sleep" (line 383)
     waitTime |-> [unit |-> "none", n |-> 0, borrow |-> FALSE],
     subscribed |-> <<>>,           \* arguments of the last wallet.Subscribe
     attempts |-> 0]                \* publish attempts so far (saturating)

PublisherInitial == NewPublisher(0, 0)

(***************************************************************************)
(* The session as a state machine.                                         *)
(***************************************************************************)
NoPre == [held |-> FALSE, Metadata |-> NilMetadata, EntryToExitPrice |-> 0,
          ExitToEntryPrice |-> 0]

Common(cfg, maxE2X, maxX2E) ==
    [Service |-> [Name |-> "service", TCP |-> cfg.TCP, UDP |-> cfg.UDP],
     EntryToExitMaxPrice |-> maxE2X, ExitToEntryMaxPrice |-> maxX2E,
     SubscriptionPrefix |-> "tuna+1.",
     Reverse |-> cfg.Reverse, ReverseMetadata |-> cfg.ReverseMetadata,
     EntryToExitPrice |-> 0, ExitToEntryPrice |-> 0, PaymentReceiver |-> "",
     Metadata |-> NilMetadata, connected |-> FALSE,
     tcpConn |-> IF cfg.Reverse
                 THEN [addr |-> <<"peer", 40000>>, open |-> TRUE, sock |-> 0]
                 ELSE NilConn,
     udpConn |-> NilConn,
     udpReadChan |-> "udpReadChan", udpWriteChan |-> "udpWriteChan",
     udpCloseChan |-> "udpCloseChan"]

SessionInit ==
    /\ \E cfg \in Configs, maxE2X \in 0..MaxPrice, maxX2E \in 0..MaxPrice :
           c = Common(cfg, maxE2X, maxX2E)
    /\ directory \in {d \in SUBSET SubscriberIds : Cardinality(d) <= MaxSubs}
    /\ udpSockets = <<>>
    /\ pc = "idle"
    /\ force = FALSE
    /\ offset = 0
    /\ sampled = 0
    /\ ret = NoRet
    /\ step = "new"
    /\ skips = 0
    /\ dialFailed = FALSE
    /\ pre = NoPre

\* Control after a branch of the loop, by its Disposition; the locals die
\* with the call
Transfer(outcome) ==
    /\ step' = outcome
    /\ offset' = 0
    /\ CASE Disposition(outcome) = "return" ->
              /\ pc' = "idle"
              /\ ret' = ErrorOf(outcome)
              /\ skips' = skips
         [] Disposition(outcome) = "continue" ->
              /\ pc' = "count"
              /\ ret' = ret
              /\ skips' = IF outcome = "emptyPage" THEN skips
                          ELSE Min(skips + 1, MaxSkips)
         [] Disposition(outcome) = "break" ->
              /\ pc' = "idle"
              /\ ret' = Ok
              /\ skips' = skips

\* A call of CreateServerConn(force), directly or through an accessor: line 214
Call(f) ==
    /\ pc = "idle"
    /\ Len(udpSockets) < MaxSockets
    /\ force' = f
    /\ skips' = 0
    /\ dialFailed' = FALSE
    /\ sampled' = 0
    /\ IF NeedsNegotiation(c, f)
       THEN /\ pc' = "count"
            /\ ret' = NoRet
            /\ step' = "call"
            /\ pre' = IF c.connected
                      THEN [held |-> TRUE, Metadata |-> c.Metadata,
                            EntryToExitPrice |-> c.EntryToExitPrice,
                            ExitToEntryPrice |-> c.ExitToEntryPrice]
                      ELSE NoPre
       ELSE /\ pc' = "idle"
            /\ ret' = Ok
            /\ step' = "noop"
            /\ pre' = NoPre
    /\ UNCHANGED <<c, directory, udpSockets, offset, rv, relay, publisher>>

\* Lines 218-226: clear the receiver, ask for the subscriber count, draw the offset
QueryCount ==
    /\ pc = "count"
    /\ c' = [c EXCEPT !.PaymentReceiver = ""]
    /\ \E rpcOk \in BOOLEAN :
          LET subscribersCount == Cardinality(directory)
          IN  IF ~rpcOk THEN Transfer("countErr")
              ELSE IF NoProviders(subscribersCount) THEN Transfer("noProviders")
              ELSE IF RandIntn(subscribersCount) = {}
              THEN /\ pc' = "panic"
                   /\ step' = "panic"
                   /\ UNCHANGED <<offset, ret, skips>>
              ELSE /\ \E o \in RandIntn(subscribersCount) : offset' = o
                   /\ pc' = "fetch"
                   /\ step' = "counted"
                   /\ UNCHANGED <<ret, skips>>
    /\ UNCHANGED <<directory, udpSockets, force, sampled, dialFailed, pre, rv, relay, publisher>>

\* Lines 227-295: fetch the page at the offset and run the loop body on it
FetchAndTry ==
    /\ pc = "fetch"
    /\ \E rpcOk \in BOOLEAN :
          IF ~rpcOk
          THEN /\ Transfer("listErr")
               /\ UNCHANGED <<c, udpSockets, sampled, dialFailed>>
          ELSE IF GetSubscribers(directory, offset) = {}
          THEN /\ Transfer("emptyPage")
               /\ UNCHANGED <<c, udpSockets, sampled, dialFailed>>
          ELSE \E s \in GetSubscribers(directory, offset) :
                  LET r == TryCandidate(c, udpSockets, s)
                  IN  /\ c' = r.c
                      /\ udpSockets' = r.socks
                      /\ sampled' = s
                      /\ dialFailed' = (dialFailed \/ r.outcome = "dialFail")
                      /\ Transfer(r.outcome)
    /\ UNCHANGED <<directory, force, pre, rv, relay, publisher>>

\* A subscription to the topic expires or is withdrawn
Unsubscribe(s) ==
    /\ s \in directory
    /\ directory' = directory \ {s}
    /\ UNCHANGED <<c, udpSockets, pc, force, offset, sampled, ret, step, skips,
                   dialFailed, pre, rv, relay, publisher>>

CallAny == \E f \in BOOLEAN : Call(f)

UnsubscribeAny == \E s \in SubscriberIds : Unsubscribe(s)

Init ==
    /\ SessionInit
    /\ rv = RevInitial
    /\ relay = RelayInitial
    /\ publisher = PublisherInitial

Next == CallAny \/ QueryCount \/ FetchAndTry \/ UnsubscribeAny

Spec == Init /\ [][Next]_vars

(***************************************************************************)
(* The UDP pumps of the session (StartUDPReaderWriter, lines 137-169).  The *)
(* goroutines of every socket the session has dialed use the session's one *)
(* c.udpWriteChan and one c.udpCloseChan.                                   *)
(***************************************************************************)
\* Lines 141-145: conn.Read fails with "use of closed network connection";
\* the reader goes to send on c.udpCloseChan
PumpReaderSeesClose(s) ==
    /\ s \in 1..Len(udpSockets)
    /\ ~udpSockets[s].open
    /\ udpSockets[s].reader = "reading"
    /\ udpSockets' = [udpSockets EXCEPT ![s].reader = "announcing"]
    /\ UNCHANGED <<c, directory, pc, force, offset, sampled, ret, step, skips,
                   dialFailed, pre, rv, relay, publisher>>

\* Lines 145-146 and 164-165: the send of the reader of socket s on
\* c.udpCloseChan meets the receive of a writer loop selecting on that
\* channel, the writer of whichever socket w; both return
PumpCloseNotify(s, w) ==
    /\ s \in 1..Len(udpSockets)
    /\ w \in 1..Len(udpSockets)
    /\ udpSockets[s].reader = "announcing"
    /\ udpSockets[w].writer = "waiting"
    /\ udpSockets' = [[udpSockets EXCEPT ![s].reader = "done"]
                          EXCEPT ![w].writer = "done"]
    /\ UNCHANGED <<c, directory, pc, force, offset, sampled, ret, step, skips,
                   dialFailed, pre, rv, relay, publisher>>

\* Lines 159-163: a payload put on c.udpWriteChan is received by a writer
\* loop selecting on that channel, the writer of whichever socket w, and
\* written to its conn (an error of conn.Write is logged, the loop goes on)
PumpWrite(w) ==
    /\ w \in 1..Len(udpSockets)
    /\ udpSockets[w].writer = "waiting"
    /\ udpSockets' = [udpSockets EXCEPT
                         ![w].wrote = IF udpSockets[w].open THEN "open" ELSE "closed"]
    /\ UNCHANGED <<c, directory, pc, force, offset, sampled, ret, step, skips,
                   dialFailed, pre, rv, relay, publisher>>

PumpReaderSeesCloseAny == \E s \in 1..MaxSockets : PumpReaderSeesClose(s)

PumpCloseNotifyAny == \E s \in 1..MaxSockets, w \in 1..MaxSockets : PumpCloseNotify(s, w)

PumpWriteAny == \E w \in 1..MaxSockets : PumpWrite(w)

\* Sessions of a service with UDP ports, and their pumps
PumpInit == Init /\ Len(c.Service.UDP) > 0

PumpNext == Next \/ PumpReaderSeesCloseAny \/ PumpCloseNotifyAny \/ PumpWriteAny

PumpSpec == PumpInit /\ [][PumpNext]_vars

\* The session holds an open UDP socket and the reader of every closed
\* earlier socket has reported the closure
HandedOver ==
    /\ c.udpConn # NilConn
    /\ udpSockets[c.udpConn.sock].open
    /\ \A s \in 1..Len(udpSockets) :
          ~udpSockets[s].open => udpSockets[s].reader = "done"

\* C20 as stated: once the pumps are handed over, the one writer loop still
\* running is that of the current udpConn; the close notification of a
\* socket's reader ends the writer loop of that same socket; and from the
\* hand-over on no payload taken from udpWriteChan is written to a closed
\* socket.
UDPPumpHandOver ==
    /\ [](HandedOver
            => {w \in 1..Len(udpSockets) : udpSockets[w].writer = "waiting"}
                  = {c.udpConn.sock})
    /\ [][\A s \in 1..MaxSockets, w \in 1..MaxSockets :
             PumpCloseNotify(s, w) => s = w]_vars
    /\ [][\A w \in 1..MaxSockets :
             (HandedOver /\ PumpWrite(w)) => udpSockets'[w].wrote = "open"]_vars

(***************************************************************************)
(* Properties of the outbound session.                                     *)
(***************************************************************************)
\* The candidate the loop body last ran on, and its price as ParsePrice reads it
SampledPrice == ParsePrice(Subscribers[sampled].meta.price)

ReachedGate == step \in {"entryToExitTooHigh", "exitToEntryTooHigh", "dialFail",
                         "committed"}

\* C1: a sampled candidate whose price parsed is rejected by the price gate
\* exactly when its entry-to-exit price exceeds EntryToExitMaxPrice or its
\* exit-to-entry price exceeds ExitToEntryMaxPrice, and the prices committed
\* by a successful negotiation are those of the candidate and within both
\* ceilings.
PriceGate ==
    /\ (ReachedGate /\ step \in {"entryToExitTooHigh", "exitToEntryTooHigh"})
          => (\/ SampledPrice.entryToExitPrice > c.EntryToExitMaxPrice
              \/ SampledPrice.exitToEntryPrice > c.ExitToEntryMaxPrice)
    /\ (ReachedGate /\ step \in {"dialFail", "committed"})
          => (/\ SampledPrice.entryToExitPrice <= c.EntryToExitMaxPrice
              /\ SampledPrice.exitToEntryPrice <= c.ExitToEntryMaxPrice)
    /\ (pc = "idle" /\ ret = Ok /\ step = "committed")
          => (/\ c.EntryToExitPrice = SampledPrice.entryToExitPrice
              /\ c.ExitToEntryPrice = SampledPrice.exitToEntryPrice
              /\ c.EntryToExitPrice <= c.EntryToExitMaxPrice
              /\ c.ExitToEntryPrice <= c.ExitToEntryMaxPrice)

\* A candidate was refused on its exit-to-entry price alone, after an earlier skip
PriceGateWitness ==
    /\ step = "exitToEntryTooHigh"
    /\ SampledPrice.entryToExitPrice <= c.EntryToExitMaxPrice
    /\ skips >= 2

\* C3: when the loop obtains a subscriber count of 0, on the first iteration
\* or after a restart, the call returns the "no service providers" error in
\* that same step: no subscriber is fetched, nothing is dialed, the loop is
\* not entered again.
NoProviderCase ==
    [][(directory = {} /\ step' # "countErr" /\ QueryCount)
          => (/\ step' = "noProviders"
              /\ pc' = "idle"
              /\ ret' = ErrNoProviders
              /\ sampled' = sampled
              /\ udpSockets' = udpSockets
              /\ c' = [c EXCEPT !.PaymentReceiver = ""])]_vars

\* The count of 0 was met on a restart of the loop, after a skipped candidate
NoProviderWitness == pc = "idle" /\ step = "noProviders" /\ skips >= 1 /\ sampled # 0

ForcedReconnectPreserves ==
    (pc = "idle" /\ ret = Ok /\ pre.held)
       => (/\ c.Metadata = pre.Metadata
           /\ c.EntryToExitPrice = pre.EntryToExitPrice
           /\ c.ExitToEntryPrice = pre.ExitToEntryPrice)

\* C6 (amended): a successful forced reconnect of a connected session runs
\* the negotiation again: Metadata and both prices are those of the
\* candidate sampled last in that call, whatever was committed before, and
\* the required transports are open handles dialed to that candidate.
ForcedReconnectRecommits ==
    (pc = "idle" /\ ret = Ok /\ pre.held)
       => (/\ sampled # 0
           /\ LET m == ReadMetadata(Subscribers[sampled].meta).metadata
              IN  /\ c.Metadata.IP = m.IP
                  /\ c.Metadata.TCPPort = m.TCPPort
                  /\ c.Metadata.UDPPort = m.UDPPort
                  /\ c.Metadata.Price = m.Price
                  /\ c.Metadata.BeneficiaryAddr = m.BeneficiaryAddr
                  /\ NeedsTCP(c) => (c.tcpConn.open /\ c.tcpConn.addr = <<m.IP, m.TCPPort>>)
                  /\ NeedsUDP(c) => (c.udpConn.open /\ c.udpConn.addr = <<m.IP, m.UDPPort>>)
           /\ c.EntryToExitPrice = SampledPrice.entryToExitPrice
           /\ c.ExitToEntryPrice = SampledPrice.exitToEntryPrice)

\* A forced reconnect committed to another descriptor at other prices
ForcedReconnectWitness ==
    /\ pc = "idle" /\ ret = Ok /\ pre.held
    /\ c.Metadata # pre.Metadata
    /\ c.EntryToExitPrice # pre.EntryToExitPrice

\* C7: a call with force = false on a connected session (and any call on a
\* reverse session) returns nil in one step, without entering the loop, and
\* leaves every field of the session and every socket as it was; each
\* accessor then hands back the unchanged handle or channel.
EnsureConnectionNoOp ==
    [][((c.connected \/ c.Reverse) /\ Call(FALSE))
          => (/\ pc' = "idle"
              /\ ret' = Ok
              /\ step' = "noop"
              /\ c' = c
              /\ udpSockets' = udpSockets
              /\ GetServerTCPConn(c', ret') = [val |-> c.tcpConn, err |-> Ok]
              /\ GetServerUDPConn(c', ret') = [val |-> c.udpConn, err |-> Ok]
              /\ GetServerUDPReadChan(c', ret') = [val |-> c.udpReadChan, err |-> Ok]
              /\ GetServerUDPWriteChan(c', ret') = [val |-> c.udpWriteChan, err |-> Ok])]_vars

\* A non-forced call was made on a connected outbound session
EnsureConnectionWitness ==
    pc = "idle" /\ step = "noop" /\ c.connected /\ ~c.Reverse /\ ~force

\* C8: connected goes from false to true only in a step that dialed every
\* transport the session requires with success (TCP with TCP ports or
\* ReverseMetadata, UDP with UDP ports or ReverseMetadata), and a step in
\* which the TCP dial succeeded and the UDP dial failed leaves it false.
ConnectedAfterAllDials ==
    [][/\ (~c.connected /\ c'.connected)
             => (/\ step' = "committed"
                 /\ NeedsTCP(c) => (/\ c'.tcpConn.open
                                    /\ c'.Metadata.IP \in TCPReachable
                                    /\ c'.tcpConn.addr =
                                          <<c'.Metadata.IP, c'.Metadata.TCPPort>>)
                 /\ NeedsUDP(c) => (/\ c'.udpConn.open
                                    /\ c'.Metadata.IP \in UDPReachable
                                    /\ c'.udpConn.addr =
                                          <<c'.Metadata.IP, c'.Metadata.UDPPort>>
                                    /\ Len(udpSockets') = Len(udpSockets) + 1
                                    /\ c'.udpConn.sock = Len(udpSockets')
                                    /\ udpSockets'[c'.udpConn.sock].open))
       /\ (~c.connected /\ NeedsTCP(c) /\ NeedsUDP(c)
             /\ c'.tcpConn.open /\ c'.udpConn = NilConn /\ sampled' # 0
             /\ step' \notin {"listErr", "emptyPage"} /\ FetchAndTry)
             => ~c'.connected]_vars

\* The TCP dial succeeded, the UDP dial failed, and connected is still false
ConnectedAfterAllDialsWitness ==
    /\ step = "dialFail" /\ ~c.connected
    /\ c.tcpConn.open /\ c.udpConn = NilConn
    /\ Len(c.Service.TCP) > 0 /\ Len(c.Service.UDP) > 0

ConnectedImpliesLiveHandles ==
    (pc = "idle" /\ ~c.Reverse /\ c.connected)
       => (/\ NeedsTCP(c) => (/\ c.tcpConn # NilConn
                              /\ c.tcpConn.open
                              /\ c.tcpConn.addr = <<c.Metadata.IP, c.Metadata.TCPPort>>)
           /\ NeedsUDP(c) => (/\ c.udpConn # NilConn
                              /\ udpSockets[c.udpConn.sock].open
                              /\ c.udpConn.addr = <<c.Metadata.IP, c.Metadata.UDPPort>>))

(***************************************************************************)
(* Negotiation against a directory that does not change, with a fair draw  *)
(* of the offset: rand.Intn gives every offset of [0, count) the same      *)
(* probability at every draw, so an offset that can be drawn again and     *)
(* again is drawn eventually.                                              *)
(***************************************************************************)
\* A subscriber that passes every check of the loop body for this session
Conforming(s) ==
    LET sub == Subscribers[s]
        m == ReadMetadata(sub.meta)
        p == ParsePrice(m.metadata.Price)
    IN  /\ ~m.err
        /\ (m.metadata.BeneficiaryAddr # "" \/ ~DeriveAddress(sub.addr).err)
        /\ ~p.err
        /\ p.entryToExitPrice <= c.EntryToExitMaxPrice
        /\ p.exitToEntryPrice <= c.ExitToEntryMaxPrice
        /\ (NeedsTCP(c) => m.metadata.IP \in TCPReachable)
        /\ (NeedsUDP(c) => m.metadata.IP \in UDPReachable)

HasConforming == \E s \in directory : Conforming(s)

\* The draw of line 226 falls on the offset of a conforming subscriber
DrawConforming ==
    /\ QueryCount
    /\ pc' = "fetch"
    /\ \E s \in GetSubscribers(directory, offset') : Conforming(s)

LiveNext == CallAny \/ QueryCount \/ FetchAndTry

\* Sessions of a service with TCP ports, with or without UDP ports
LiveInit == Init /\ Len(c.Service.TCP) > 0

LiveSpec ==
    /\ LiveInit
    /\ [][LiveNext]_vars
    /\ WF_vars(QueryCount)
    /\ WF_vars(FetchAndTry)
    /\ SF_vars(DrawConforming)

\* C2 as stated: with a conforming subscriber among the N of the directory,
\* the loop skips at most N candidates before it ends.
NegotiationWithinNSkips ==
    (pc # "idle" /\ HasConforming) => skips <= Cardinality(directory)

\* C2 (amended): with a conforming subscriber in an unchanging directory and
\* a fair draw of the offset, every run of the negotiation loop ends (with a
\* commitment or with a directory error); the offsets are drawn with
\* replacement, so the number of skips before that is not bounded by N.
NegotiationTerminates ==
    [](((pc # "idle") /\ HasConforming) => <>(pc = "idle"))

\* A negotiation committed after more skips than the directory has subscribers
NegotiationTerminatesWitness ==
    /\ pc = "idle" /\ ret = Ok /\ step = "committed"
    /\ HasConforming
    /\ skips > Cardinality(directory)

(***************************************************************************)
(* The reverse entry as a state machine.                                   *)
(***************************************************************************)
\* udpReadChans[key] = ch
MapStore(m, key, ch) == {e \in m : e[1] # key} \cup {<<key, ch>>}

\* udpReadChan, ok := udpReadChans[key] : the channels found (none or one)
MapLoad(m, key) == {e[2] : e \in {x \in m : x[1] = key}}

\* The same lookup while the map write of line 153 is in progress.  The map
\* is shared without a lock: the read may see the map before or after the
\* write, miss a key while buckets move, see the new key with its channel
\* not stored yet (NoChan: a nil channel), or be caught by the runtime
\* ("concurrent map read and map write"), which ends the process.
RacyLoad(m, ins, key) ==
    {[found |-> TRUE, chan |-> ch, crash |-> FALSE] : ch \in MapLoad(m, key)}
    \cup {[found |-> FALSE, chan |-> NoChan, crash |-> FALSE]}
    \cup {[found |-> FALSE, chan |-> NoChan, crash |-> TRUE]}
    \cup (IF ins[1] = key
          THEN {[found |-> TRUE, chan |-> ins[2], crash |-> FALSE],
                [found |-> TRUE, chan |-> NoChan, crash |-> FALSE]}
          ELSE {})

\* The outcomes of the lookup of line 94
Load(m, ins, key) ==
    IF ins # <<>> THEN RacyLoad(m, ins, key)
    ELSE IF MapLoad(m, key) = {}
    THEN {[found |-> FALSE, chan |-> NoChan, crash |-> FALSE]}
    ELSE {[found |-> TRUE, chan |-> ch, crash |-> FALSE] : ch \in MapLoad(m, key)}

RevRunning == ~rv.crashed

\* Lines 102-119: accept a connection and open the stream on it; the loop
\* then calls stream.Read for the descriptor, in the accept loop itself.  The
\* peer sends its descriptor or stays silent.  (An error of listener.Accept
\* leaves everything as it is: the loop goes round to line 102.)
Accept(host, streamOk, silent) ==
    /\ RevRunning
    /\ rv.acceptLoop = "accept"
    /\ rv.inserting = <<>>
    /\ Len(rv.conns) < MaxConns
    /\ silent => streamOk
    /\ LET conn == [host |-> host, Metadata |-> NilMetadata, decodeErr |-> FALSE,
                    key |-> <<>>, udpReadChan |-> NoChan,
                    stage |-> IF streamOk THEN "opened" ELSE "closed",
                    silent |-> silent]
       IN  rv' = [rv EXCEPT !.conns = Append(@, conn),
                            !.writers = Append(@, "none"),
                            !.acceptLoop = IF streamOk THEN "read" ELSE "accept"]
    /\ UNCHANGED <<sessionVars, relay, publisher>>

\* Lines 119-153: stream.Read returns with the peer's bytes or an error; the
\* descriptor is decoded (line 128 drops what SetMetadata returns: decodeErr
\* only records it); with a UDP port declared, the channels are made, the
\* writer loop is started and the map write begins.  Without one, lines
\* 158-162 start StartReverse.
ReadDescriptor(descriptor, readOk) ==
    /\ RevRunning
    /\ rv.acceptLoop = "read"
    /\ ~rv.conns[Len(rv.conns)].silent
    /\ LET id == Len(rv.conns)
           host == rv.conns[id].host
           m == ReadMetadata(descriptor).metadata
           decodeErr == ReadMetadata(descriptor).err
           wired == readOk /\ m.UDPPort > 0
           key == WiredAddrString(host, m.UDPPort)
           conn == [host |-> host,
                    Metadata |-> IF readOk THEN m ELSE NilMetadata,
                    decodeErr |-> readOk /\ decodeErr,
                    key |-> IF wired THEN key ELSE <<>>,
                    udpReadChan |-> IF wired THEN id ELSE NoChan,
                    stage |-> IF ~readOk THEN "closed"
                              ELSE IF wired THEN "wiring" ELSE "relaying",
                    silent |-> FALSE]
       IN  rv' = [rv EXCEPT !.conns[id] = conn,
                            !.writers[id] = IF wired THEN "waiting" ELSE "none",
                            !.inserting = IF wired THEN <<key, id>> ELSE <<>>,
                            !.acceptLoop = "accept"]
    /\ UNCHANGED <<sessionVars, relay, publisher>>

\* Lines 153-162: the map write completes, the session gets its channels and
\* StartReverse is started
Register ==
    /\ RevRunning
    /\ rv.inserting # <<>>
    /\ rv' = [rv EXCEPT !.udpReadChans = MapStore(@, rv.inserting[1], rv.inserting[2]),
                        !.inserting = <<>>,
                        !.conns[rv.inserting[2]].stage = "relaying"]
    /\ UNCHANGED <<sessionVars, relay, publisher>>

\* Lines 80-96: a datagram arrives from host:port; its payload goes to the
\* channel the map gives for the sender, or nowhere
Datagram(host, port) ==
    /\ RevRunning
    /\ rv.udpOpen
    /\ rv.reader.state = "reading"
    /\ \E r \in Load(rv.udpReadChans, rv.inserting, SenderAddrString(host, port)) :
          rv' = IF r.crash THEN [rv EXCEPT !.crashed = TRUE]
                ELSE IF ~r.found THEN [rv EXCEPT !.dropped = <<host, port>>]
                ELSE IF r.chan = NoChan
                THEN [rv EXCEPT !.reader = [state |-> "blocked", chan |-> NoChan,
                                            data |-> <<host, port>>]]
                ELSE [rv EXCEPT !.reader = [state |-> "sending", chan |-> r.chan,
                                            data |-> <<host, port>>]]
    /\ UNCHANGED <<sessionVars, relay, publisher>>

\* The session of a connection receives from its read channel: the send of
\* line 95 on the unbuffered channel (line 136) completes
Receive ==
    /\ RevRunning
    /\ rv.reader.state = "sending"
    /\ rv.reader.chan # rv.stalled
    /\ rv' = [rv EXCEPT !.delivered = @ \cup {<<rv.reader.chan, rv.reader.data>>},
                        !.reader = [state |-> "reading", chan |-> NoChan, data |-> <<>>]]
    /\ UNCHANGED <<sessionVars, relay, publisher>>

\* The session of a relaying connection stops receiving from its read
\* channel (its relay is slow or has ended); the registry keeps the entry
ConsumerStops(ch) ==
    /\ RevRunning
    /\ rv.stalled = NoChan
    /\ ch \in 1..Len(rv.conns)
    /\ rv.conns[ch].stage = "relaying"
    /\ rv.conns[ch].udpReadChan = ch
    /\ rv' = [rv EXCEPT !.stalled = ch]
    /\ UNCHANGED <<sessionVars, relay, publisher>>

\* The shared UDP socket is closed
CloseUDP ==
    /\ RevRunning
    /\ rv.udpOpen
    /\ rv' = [rv EXCEPT !.udpOpen = FALSE,
                        !.waitingAtClose = {w \in 1..Len(rv.writers) :
                                               rv.writers[w] = "waiting"}]
    /\ UNCHANGED <<sessionVars, relay, publisher>>

\* Lines 81-85: ReadFromUDP fails with "use of closed network connection"
\* and the reader goes to send on udpCloseChan
ReaderSeesClose ==
    /\ RevRunning
    /\ ~rv.udpOpen
    /\ rv.reader.state = "reading"
    /\ rv' = [rv EXCEPT !.reader.state = "announcing"]
    /\ UNCHANGED <<sessionVars, relay, publisher>>

\* Lines 85-86 and 147-148: udpCloseChan is unbuffered; the reader's one send
\* meets the receive of one writer loop, and both return
CloseNotify(w) ==
    /\ RevRunning
    /\ rv.reader.state = "announcing"
    /\ w \in 1..Len(rv.writers)
    /\ rv.writers[w] = "waiting"
    /\ rv' = [rv EXCEPT !.reader.state = "done", !.writers[w] = "done"]
    /\ UNCHANGED <<sessionVars, relay, publisher>>

\* Lines 142-146: a payload arrives on the connection's write channel and is
\* written to the socket for the connection's address (an error on a closed
\* socket is logged and the loop goes on)
WriterSend(w) ==
    /\ RevRunning
    /\ w \in 1..Len(rv.writers)
    /\ rv.writers[w] = "waiting"
    /\ rv.udpOpen
    /\ <<w, rv.conns[w].key>> \notin rv.sent
    /\ rv' = [rv EXCEPT !.sent = @ \cup {<<w, rv.conns[w].key>>}]
    /\ UNCHANGED <<sessionVars, relay, publisher>>

AcceptAny ==
    \E host \in RemoteHosts, streamOk \in BOOLEAN, silent \in BOOLEAN :
        Accept(host, streamOk, silent)

ReadDescriptorAny ==
    \E descriptor \in PeerDescriptors, readOk \in BOOLEAN :
        ReadDescriptor(descriptor, readOk)

ConsumerStopsAny == \E ch \in 1..MaxConns : ConsumerStops(ch)

DatagramAny == \E host \in RemoteHosts, port \in PeerPorts : Datagram(host, port)

CloseNotifyAny == \E w \in 1..MaxConns : CloseNotify(w)

WriterSendAny == \E w \in 1..MaxConns : WriterSend(w)

RevNext ==
    \/ AcceptAny \/ ReadDescriptorAny \/ Register \/ DatagramAny \/ Receive
    \/ ConsumerStopsAny \/ CloseUDP
    \/ ReaderSeesClose \/ CloseNotifyAny \/ WriterSendAny

\* One session configuration stands by while the reverse entry runs
Standby ==
    /\ SessionInit
    /\ c.Reverse
    /\ c.EntryToExitMaxPrice = 0 /\ c.ExitToEntryMaxPrice = 0
    /\ directory = {}

RevInit ==
    /\ Standby
    /\ rv = RevInitial
    /\ relay = RelayInitial
    /\ publisher = PublisherInitial

RevSpec == RevInit /\ [][RevNext]_vars

\* The goroutines are scheduled fairly: a loop that can take its next step
\* takes it
RevLiveSpec ==
    /\ RevInit
    /\ [][RevNext]_vars
    /\ WF_vars(ReadDescriptorAny)
    /\ WF_vars(Register)
    /\ WF_vars(Receive)
    /\ WF_vars(ReaderSeesClose)
    /\ WF_vars(CloseNotifyAny)

(***************************************************************************)
(* Properties of the reverse entry.                                        *)
(***************************************************************************)
\* C9: once the reader loop has announced that the shared UDP socket is
\* closed, every writer loop that was waiting on its write channel when the
\* socket was closed eventually returns.
UDPCloseBroadcast ==
    \A w \in 1..MaxConns :
        []((w \in rv.waitingAtClose /\ rv.reader.state \in {"announcing", "done"})
              => <>(rv.crashed \/ (w <= Len(rv.writers) /\ rv.writers[w] = "done")))

\* The peer a channel was made for declared this host and port
ChannelOf(ch, host, port) ==
    /\ ch \in 1..Len(rv.conns)
    /\ rv.conns[ch].host = host
    /\ rv.conns[ch].Metadata.UDPPort = port

DemuxSafe ==
    /\ \A e \in rv.delivered : ChannelOf(e[1], e[2][1], e[2][2])
    /\ rv.reader.state = "sending"
          => ChannelOf(rv.reader.chan, rv.reader.data[1], rv.reader.data[2])

Unregistered(host, port) ==
    /\ \A e \in rv.udpReadChans : e[1] # <<host, port>>
    /\ (rv.inserting = <<>> \/ rv.inserting[1] # <<host, port>>)

\* C10: the read channel made for a peer receives only payloads of datagrams
\* whose sender is the host and port that peer was wired with, and a datagram
\* whose sender is no key of the registry (nor being written to it) goes to
\* no channel: the reader takes none up and nothing more is delivered;
\* whatever the interleaving of the reader loop with the accept loop.
UDPDemultiplexing ==
    /\ []DemuxSafe
    /\ [][\A host \in RemoteHosts, port \in PeerPorts :
             (Datagram(host, port) /\ Unregistered(host, port))
                => (/\ rv'.reader = rv.reader
                    /\ rv'.delivered = rv.delivered)]_vars

\* Two peers wired at once each received a payload of their own, a datagram
\* of a sender not registered was dropped
UDPDemultiplexingWitness ==
    /\ \E e1 \in rv.delivered, e2 \in rv.delivered : e1[1] # e2[1] /\ e1[2] # e2[2]
    /\ rv.dropped # <<>>
    /\ rv.dropped[1] = "10.0.0.1"

\* C11 as stated: the step that completes the wiring of a connection whose
\* descriptor declared a UDP port leaves exactly one entry of the registry for
\* that connection's read channel, keyed by the host of the connection's TCP
\* remote address and the declared port, and the connection relays from that
\* step on; a connection whose descriptor declared port 0 has no entry.
ReverseDescriptorExchange ==
    [][/\ Register =>
             LET id == rv.inserting[2]
                 conn == rv.conns[id]
             IN  /\ {e \in rv'.udpReadChans : e[2] = id}
                       = {<<<<conn.host, conn.Metadata.UDPPort>>, id>>}
                 /\ rv.conns[id].stage = "wiring"
                 /\ rv'.conns[id].stage = "relaying"
       /\ \A id \in 1..Len(rv'.conns) :
             rv'.conns[id].Metadata.UDPPort = 0
                => {e \in rv'.udpReadChans : e[2] = id} = {}]_vars

\* C12 as stated: a connection whose descriptor failed to decode is closed,
\* has no entry in the registry and is never relayed.
DecodeFailureAborts ==
    \A id \in 1..Len(rv.conns) :
        rv.conns[id].decodeErr
           => (/\ rv.conns[id].stage = "closed"
               /\ {e \in rv.udpReadChans : e[2] = id} = {}
               /\ rv.writers[id] = "none")

\* C13 as stated: whatever happens to a connection, the accept loop comes
\* back to Accept: whenever it is inside an iteration, waiting in stream.Read
\* for a descriptor, it is eventually at listener.Accept again.
AcceptLoopKeepsAccepting ==
    []((rv.acceptLoop = "read") => <>(rv.crashed \/ rv.acceptLoop = "accept"))

\* C16 as stated: when the consumer of one peer's read channel has stopped
\* receiving and another peer is registered, the reader loop, if it is
\* handing a payload to the stopped peer's channel, eventually reads the
\* shared socket again (and so forwards the other peer's datagrams).
SlowPeerCannotStall ==
    []((/\ rv.reader.state = "sending"
        /\ rv.reader.chan = rv.stalled
        /\ \E e \in rv.udpReadChans : e[2] # rv.stalled)
          => <>(rv.crashed \/ rv.reader.state # "sending"))

(***************************************************************************)
(* Pipe and copyBuffer as a state machine: each relay is a goroutine       *)
(* running Pipe(dest, src, written) with the same counter.                 *)
(***************************************************************************)
\* What src.Read(buf) may return for a source with p.left bytes to come: up
\* to len(buf) bytes with no error, the last bytes (or none) with io.EOF, or
\* any number of them with another error
ReadResults(p) ==
    {x \in [nr : 0..Min(p.left, BufLen), err : {"nil", "EOF", "error"}] :
        /\ x.err = "nil" => x.nr > 0
        /\ x.err = "EOF" => x.nr = p.left}

\* (variant: the counter counts the writes, not the bytes written)
AddWritten_CountsWrites(written, nw) == IF nw > 0 THEN written + 1 ELSE written

\* Lines 394-398: atomic.AddUint64(written, uint64(nw)) when nw > 0
AddWritten(written, nw) == IF nw > 0 THEN written + nw ELSE written

\* Lines 406-411: what copyBuffer returns for the error of src.Read
ReadErrResult(err) == IF err = "EOF" THEN "nil" ELSE "error"

\* Lines 391-392 and 406-411: the result of src.Read with no byte read
AfterRead(p, nr, err) ==
    IF nr > 0
    THEN [p EXCEPT !.left = @ - nr, !.nr = nr, !.readErr = err, !.pc = "write"]
    ELSE [p EXCEPT !.nr = 0, !.readErr = err, !.pc = "copied",
                   !.result = ReadErrResult(err)]

\* Lines 393-411: dest.Write(buf[0:nr]) returned nw and werr
AfterWrite(p, nw, werr) ==
    LET q == [p EXCEPT !.added = AddWritten(@, nw)]
    IN  IF werr # "nil" THEN [q EXCEPT !.pc = "copied", !.result = "error"]
        ELSE IF p.nr # nw THEN [q EXCEPT !.pc = "copied", !.result = "ErrShortWrite"]
        ELSE IF p.readErr # "nil"
        THEN [q EXCEPT !.pc = "copied", !.result = ReadErrResult(p.readErr)]
        ELSE [q EXCEPT !.pc = "read"]

\* (variant: the endpoints are closed only after a copy that ended cleanly)
DeferredCloses_OnlyOnSuccess(p) ==
    IF p.result = "nil"
    THEN [p EXCEPT !.srcClosed = @ + 1, !.destClosed = @ + 1, !.pc = "returned"]
    ELSE [p EXCEPT !.pc = "returned"]

\* Lines 416-417: the deferred src.Close() and dest.Close() run when Pipe returns
DeferredCloses(p) ==
    [p EXCEPT !.srcClosed = @ + 1, !.destClosed = @ + 1, !.pc = "returned"]

\* Line 391
PipeRead(r, nr, err) ==
    /\ relay.pipes[r].pc = "read"
    /\ [nr |-> nr, err |-> err] \in ReadResults(relay.pipes[r])
    /\ relay' = [relay EXCEPT !.pipes[r] = AfterRead(@, nr, err)]
    /\ UNCHANGED <<sessionVars, rv, publisher>>

\* Lines 393-405
PipeWrite(r, nw, werr) ==
    /\ relay.pipes[r].pc = "write"
    /\ nw \in 0..relay.pipes[r].nr
    /\ relay' = [relay EXCEPT !.pipes[r] = AfterWrite(@, nw, werr),
                              !.written = AddWritten(@, nw)]
    /\ UNCHANGED <<sessionVars, rv, publisher>>

\* Lines 415-419: copyBuffer has returned, Pipe returns
PipeReturn(r) ==
    /\ relay.pipes[r].pc = "copied"
    /\ relay' = [relay EXCEPT !.pipes[r] = DeferredCloses(@)]
    /\ UNCHANGED <<sessionVars, rv, publisher>>

PipeReadAny ==
    \E r \in Relays, nr \in 0..BufLen, err \in {"nil", "EOF", "error"} :
        PipeRead(r, nr, err)

PipeWriteAny ==
    \E r \in Relays, nw \in 0..BufLen, werr \in {"nil", "error"} : PipeWrite(r, nw, werr)

PipeReturnAny == \E r \in Relays : PipeReturn(r)

\* Relays of payloads of every size up to MaxPayload
RelayInit ==
    /\ Standby
    /\ rv = RevInitial
    /\ publisher = PublisherInitial
    /\ \E size \in [Relays -> 0..MaxPayload] :
          relay = [written |-> 0, pipes |-> [r \in Relays |-> NewPipe(size[r])]]

RelayNext == PipeReadAny \/ PipeWriteAny \/ PipeReturnAny

RelaySpec == RelayInit /\ [][RelayNext]_vars

\* C14: a relay whose copy ended without error (the source ended with
\* end-of-input, every write was complete) has added to the shared counter
\* exactly the size of its payload, however the payload was split into reads
\* of at most the buffer's length; and the counter is the sum of what the
\* relays running at once have added.
RelayByteAccounting ==
    /\ \A r \in Relays :
          relay.pipes[r].result = "nil" => relay.pipes[r].added = relay.pipes[r].size
    /\ \A r \in Relays : relay.pipes[r].added <= relay.pipes[r].size
    /\ relay.written = relay.pipes[1].added + relay.pipes[2].added

\* Two relays ended cleanly, one of a payload longer than the buffer
RelayByteAccountingWitness ==
    /\ \A r \in Relays : relay.pipes[r].pc = "returned" /\ relay.pipes[r].result = "nil"
    /\ relay.pipes[1].size > BufLen
    /\ relay.pipes[2].size > 0
    /\ relay.written = relay.pipes[1].size + relay.pipes[2].size

\* C15: when Pipe has returned, src.Close and dest.Close have each been
\* called exactly once, whichever way the copy ended (end-of-input, read
\* error, write error, short write); neither is called while the copy loop
\* runs.
PipeClosesOnce ==
    \A r \in Relays :
        LET p == relay.pipes[r]
        IN  /\ p.pc = "returned" => (p.srcClosed = 1 /\ p.destClosed = 1)
            /\ p.pc # "returned" => (p.srcClosed = 0 /\ p.destClosed = 0)
            /\ p.pc \in {"copied", "returned"}
                  <=> p.result \in {"nil", "error", "ErrShortWrite"}

\* One relay returned after a short write, the other after a read error
PipeClosesOnceWitness ==
    /\ relay.pipes[1].pc = "returned" /\ relay.pipes[1].result = "ErrShortWrite"
    /\ relay.pipes[2].pc = "returned" /\ relay.pipes[2].result = "error"
    /\ relay.pipes[2].nr = 0
    /\ \A r \in Relays : relay.pipes[r].srcClosed = 1 /\ relay.pipes[r].destClosed = 1

(***************************************************************************)
(* The publishing loop of UpdateMetadata as a state machine.  Waits are    *)
(* counted in their unit: consensus rounds (config.ConsensusDuration) or   *)
(* seconds.                                                                *)
(***************************************************************************)
\* a - b on uint32: val is the difference, borrow tells that it wrapped
\* around (the uint32 result is then val + 2^32)
Uint32Sub(a, b) == [val |-> a - b, borrow |-> a < b]

\* (variant: the margin is subtracted without the test of line 375)
WaitTime_NoGuard(ok, subscriptionDuration) ==
    IF ~ok THEN [unit |-> "second", n |-> 1, borrow |-> FALSE]
    ELSE LET x == Uint32Sub(subscriptionDuration, 3)
         IN  [unit |-> "round", n |-> x.val, borrow |-> x.borrow]

\* Lines 371-379: the wait chosen after wallet.Subscribe returned
WaitTime(ok, subscriptionDuration) ==
    IF ~ok THEN [unit |-> "second", n |-> 1, borrow |-> FALSE]
    ELSE IF subscriptionDuration > 3
    THEN LET x == Uint32Sub(subscriptionDuration, 3)
         IN  [unit |-> "round", n |-> x.val, borrow |-> x.borrow]
    ELSE [unit |-> "round", n |-> 1, borrow |-> FALSE]

\* Lines 364-381: wallet.Subscribe("", topic, subscriptionDuration,
\* string(metadataRaw), subscriptionFee) returns a txid (ok) or an error
Subscribe(ok) ==
    /\ publisher.pc = "publish"
    /\ publisher' =
          [publisher EXCEPT
             !.pc = "sleep",
             !.waitTime = WaitTime(ok, publisher.subscriptionDuration),
             !.subscribed = [topic |-> publisher.topic,
                             duration |-> publisher.subscriptionDuration,
                             metadata |-> publisher.metadataRaw],
             !.attempts = Min(@ + 1, MaxPublishes)]
    /\ UNCHANGED <<sessionVars, rv, relay>>

\* Line 383: time.Sleep(waitTime) returns and the loop goes round
Sleep ==
    /\ publisher.pc = "sleep"
    /\ publisher' = [publisher EXCEPT !.pc = "publish"]
    /\ UNCHANGED <<sessionVars, rv, relay>>

SubscribeAny == \E ok \in BOOLEAN : Subscribe(ok)

\* Publishers of every subscription duration up to MaxDuration
PubInit ==
    /\ Standby
    /\ rv = RevInitial
    /\ relay = RelayInitial
    /\ \E udpPort \in {0, 30021}, subscriptionDuration \in 0..MaxDuration :
          publisher = NewPublisher(udpPort, subscriptionDuration)

PubNext == SubscribeAny \/ Sleep

\* wallet.Subscribe and time.Sleep return
PubSpec ==
    /\ PubInit
    /\ [][PubNext]_vars
    /\ WF_vars(SubscribeAny)
    /\ WF_vars(Sleep)

\* C17: after a publish attempt for subscription duration d the loop sleeps
\* max(d - 3, 1) consensus rounds when the attempt succeeded (the
\* subtraction never wraps around) and one second when it failed, then
\* publishes again; every attempt publishes the descriptor made at the start
\* under the topic prefix + service name for duration d; the loop never
\* stops.
PublisherSchedule ==
    /\ [][\A ok \in BOOLEAN :
             Subscribe(ok) =>
                LET d == publisher.subscriptionDuration
                IN  /\ publisher'.pc = "sleep"
                    /\ publisher'.waitTime =
                          (IF ok
                           THEN [unit |-> "round",
                                 n |-> IF d - 3 > 1 THEN d - 3 ELSE 1,
                                 borrow |-> FALSE]
                           ELSE [unit |-> "second", n |-> 1, borrow |-> FALSE])
                    /\ publisher'.subscribed =
                          [topic |-> <<"tuna+1.", "reverse">>,
                           duration |-> d,
                           metadata |-> publisher.metadataRaw]]_vars
    /\ [][/\ Sleep => publisher'.pc = "publish"
          /\ publisher'.metadataRaw = publisher.metadataRaw
          /\ publisher'.topic = publisher.topic
          /\ publisher'.subscriptionDuration = publisher.subscriptionDuration]_vars
    /\ []<>(publisher.pc = "publish")
    /\ []<>(publisher.pc = "sleep")

\* A later attempt for a duration below the margin succeeded
PublisherScheduleWitness ==
    /\ publisher.pc = "sleep"
    /\ publisher.attempts >= 2
    /\ publisher.subscriptionDuration < 3
    /\ publisher.waitTime = [unit |-> "round", n |-> 1, borrow |-> FALSE]
====
